---- MODULE Spec2Model ----
(***************************************************************************)
(* Model of gestao.py: the per-account ledger of monthly movements of      *)
(* PDDE programs, the balance reconstruction (get_saldo_anterior), the     *)
(* yield apportionment (calcular_rateio_rendimento) and the handlers that  *)
(* mutate the session (sidebar_config, main, render_year_view).            *)
(*                                                                         *)
(* Amounts.  The program computes with Python floats.  Here an amount is   *)
(* an integer number of "ulps": one centavo (minor unit) is Escala =       *)
(* 2^FracBits ulps.  Everything typed by the user is a whole number of     *)
(* centavos.  Addition and subtraction are exact on this grid; the two     *)
(* operations of the apportionment that round in floating point (the       *)
(* division base/total and the product rendimento * fator) round to the    *)
(* nearest grid point, ties to even.  A factor is a number of 1/Escala.    *)
(***************************************************************************)
EXTENDS Integers, Sequences, FiniteSets, TLC

VARIABLES
    accounts,         \* st.session_state['accounts']: name -> account document
    available_years,  \* st.session_state['available_years']: sorted list
    db_conn,          \* st.session_state['db_conn']: "None" or "client"
    firestore,        \* collection 'pdde_contas' of the store: name -> document
    rede,             \* TRUE when calls on the store client succeed
    msgs,             \* what the last handler displayed: success/error/warning
    last,             \* the last handler that ran and its inputs
    passos            \* number of events so far (user operations, network changes)

vars == <<accounts, available_years, db_conn, firestore, rede, msgs, last, passos>>

----------------------------------------------------------------------------
(* Bounds of the model *)

MaxOps == 3
FracBits == 8

Escala == 2 ^ FracBits
Moeda(centavos) == centavos * Escala

AnoAtual == 2024

Contas == {"A", "B"}
Programas == {"P1", "P2"}
Meses == 1 .. 12
MesesUsados == {1, 2}
AnosNovos == {AnoAtual + 1}
Tipos == {"Capital", "Custeio", "Total"}
Rendimentos == {Moeda(0 - 10), Moeda(10)}
SaldosDigitados == {<<Moeda(100), 0>>, <<Moeda(0 - 150), Moeda(20)>>}
Rascunhos ==
    { [cred_cap |-> 0, cred_cus |-> 0, deb_cap |-> 0, deb_cus |-> 0],
      [cred_cap |-> Moeda(100), cred_cus |-> 0, deb_cap |-> 0, deb_cus |-> Moeda(30)] }

KeyError == "KeyError"

----------------------------------------------------------------------------
(* Arithmetic helpers *)

Max(a, b) == IF a >= b THEN a ELSE b
Abs(a) == IF a >= 0 THEN a ELSE 0 - a

RECURSIVE Soma(_)
Soma(s) == IF s = <<>> THEN 0 ELSE Head(s) + Soma(Tail(s))

\* n / d for d > 0, rounded to the nearest integer, ties to the even one
Arredonda(n, d) ==
    LET q == n \div d
        r == n % d
    IN  IF 2 * r < d THEN q
        ELSE IF 2 * r > d THEN q + 1
        ELSE IF q % 2 = 0 THEN q ELSE q + 1

\* float division of two amounts: the factor, in units of 1/Escala
Divide(a, b) == Arredonda(a * Escala, b)

\* float product of an amount and a factor
Multiplica(a, f) == Arredonda(a * f, Escala)

RECURSIVE Ordena(_)
Ordena(S) ==
    IF S = {} THEN <<>>
    ELSE LET m == CHOOSE x \in S : \A y \in S : x <= y
         IN  <<m>> \o Ordena(S \ {m})

Elementos(s) == { s[i] : i \in 1 .. Len(s) }

----------------------------------------------------------------------------
(* The store *)

nova_estrutura == [programas |-> <<>>, movimentacoes |-> <<>>, saldos_iniciais |-> <<>>]

load_data_from_firebase(db) ==
    IF db = "None" THEN [ok |-> TRUE, dados |-> <<>>]
    ELSE IF rede THEN [ok |-> TRUE, dados |-> firestore]
    ELSE [ok |-> FALSE, dados |-> <<>>]

\* the store after save_account_to_firebase(db, account_name, account_data)
save_account_to_firebase(db, account_name, account_data) ==
    IF db = "None" \/ ~rede THEN firestore
    ELSE [n \in DOMAIN firestore \cup {account_name} |->
            IF n = account_name THEN account_data ELSE firestore[n]]

\* TRUE when the save raised inside the try block (st.error is shown)
save_falhou(db) == db # "None" /\ ~rede

anos_encontrados(contas) ==
    {AnoAtual} \cup
    UNION { { contas[c].movimentacoes[i].ano : i \in 1 .. Len(contas[c].movimentacoes) }
            : c \in DOMAIN contas }

----------------------------------------------------------------------------
(* Balance reconstruction *)

saldo_inicial(conta_data, programa, tipo_recurso) ==
    IF programa \in DOMAIN conta_data.saldos_iniciais
    THEN IF tipo_recurso # "Total"
         THEN conta_data.saldos_iniciais[programa][tipo_recurso]
         ELSE conta_data.saldos_iniciais[programa]["Capital"]
              + conta_data.saldos_iniciais[programa]["Custeio"]
    ELSE 0

\* variants of eh_passado: the year forgotten; the target month included
eh_passado_so_mes(mov, mes_alvo, ano_alvo) == mov.mes_num < mes_alvo

eh_passado_inclui_mes(mov, mes_alvo, ano_alvo) ==
    (mov.ano < ano_alvo) \/ (mov.ano = ano_alvo /\ mov.mes_num <= mes_alvo)

eh_passado(mov, mes_alvo, ano_alvo) ==
    (mov.ano < ano_alvo) \/ (mov.ano = ano_alvo /\ mov.mes_num < mes_alvo)

liquido(mov, tipo_recurso) ==
    IF tipo_recurso = "Capital"
    THEN mov.credito_capital + mov.rendimento_capital - mov.debito_capital
    ELSE IF tipo_recurso = "Custeio"
    THEN mov.credito_custeio + mov.rendimento_custeio - mov.debito_custeio
    ELSE IF tipo_recurso = "Total"
    THEN mov.total_credito + mov.total_rendimento - mov.total_debito
    ELSE 0

\* variant of soma_passados: the program of the movement not compared
RECURSIVE soma_passados_sem_programa(_, _, _, _, _)
soma_passados_sem_programa(movs, programa, tipo_recurso, mes_alvo, ano_alvo) ==
    IF movs = <<>> THEN 0
    ELSE (IF eh_passado(Head(movs), mes_alvo, ano_alvo)
          THEN liquido(Head(movs), tipo_recurso) ELSE 0)
         + soma_passados_sem_programa(Tail(movs), programa, tipo_recurso, mes_alvo, ano_alvo)

\* the loop of get_saldo_anterior over the list movs
RECURSIVE soma_passados(_, _, _, _, _)
soma_passados(movs, programa, tipo_recurso, mes_alvo, ano_alvo) ==
    IF movs = <<>> THEN 0
    ELSE (IF Head(movs).programa = programa /\ eh_passado(Head(movs), mes_alvo, ano_alvo)
          THEN liquido(Head(movs), tipo_recurso) ELSE 0)
         + soma_passados(Tail(movs), programa, tipo_recurso, mes_alvo, ano_alvo)

\* line 102: indexing the session dictionary with an unknown name raises
levanta_KeyError(contas, account_name) == account_name \notin DOMAIN contas

\* get_saldo_anterior on a given session dictionary
saldo_em(contas, account_name, programa, tipo_recurso, mes_alvo, ano_alvo) ==
    IF levanta_KeyError(contas, account_name) THEN KeyError
    ELSE saldo_inicial(contas[account_name], programa, tipo_recurso)
         + soma_passados(contas[account_name].movimentacoes, programa, tipo_recurso,
                         mes_alvo, ano_alvo)

get_saldo_anterior(account_name, programa, tipo_recurso, mes_alvo, ano_alvo) ==
    saldo_em(accounts, account_name, programa, tipo_recurso, mes_alvo, ano_alvo)

----------------------------------------------------------------------------
(* Yield apportionment.  dados_entrada is the dict built by the form, in    *)
(* the order of the account's programs: a sequence of records               *)
(* [prog, cred_cap, cred_cus, deb_cap, deb_cus].                            *)

base_cap(conta, mes_num, ano, e) ==
    Max(0, get_saldo_anterior(conta, e.prog, "Capital", mes_num, ano) + e.cred_cap - e.deb_cap)

\* variant of base_cus: the base not clamped at zero
base_cus_sem_piso(conta, mes_num, ano, e) ==
    get_saldo_anterior(conta, e.prog, "Custeio", mes_num, ano) + e.cred_cus - e.deb_cus

base_cus(conta, mes_num, ano, e) ==
    Max(0, get_saldo_anterior(conta, e.prog, "Custeio", mes_num, ano) + e.cred_cus - e.deb_cus)

\* variant of total_saldo_conta: the Custeio bases left out of the total
total_saldo_conta_so_capital(conta, mes_num, ano, dados_entrada) ==
    Soma([i \in 1 .. Len(dados_entrada) |-> base_cap(conta, mes_num, ano, dados_entrada[i])])

total_saldo_conta(conta, mes_num, ano, dados_entrada) ==
    Soma([i \in 1 .. Len(dados_entrada) |->
            base_cap(conta, mes_num, ano, dados_entrada[i])
            + base_cus(conta, mes_num, ano, dados_entrada[i])])

\* variant of fator: an empty pool gives every base the whole yield
fator_zero_inteiro(base, total) == IF total > 0 THEN Divide(base, total) ELSE Escala

fator(base, total) == IF total > 0 THEN Divide(base, total) ELSE 0

\* variant of registro: the two yield shares stored in each other's field
registro_trocado(conta, mes_num, ano, rendimento_total_banco, e, total) ==
    LET rend_cap == Multiplica(rendimento_total_banco,
                               fator(base_cap(conta, mes_num, ano, e), total))
        rend_cus == Multiplica(rendimento_total_banco,
                               fator(base_cus(conta, mes_num, ano, e), total))
    IN  [programa |-> e.prog, mes_num |-> mes_num, ano |-> ano,
         credito_capital |-> e.cred_cap, credito_custeio |-> e.cred_cus,
         debito_capital |-> e.deb_cap, debito_custeio |-> e.deb_cus,
         rendimento_capital |-> rend_cus, rendimento_custeio |-> rend_cap,
         total_credito |-> e.cred_cap + e.cred_cus,
         total_debito |-> e.deb_cap + e.deb_cus,
         total_rendimento |-> rend_cap + rend_cus]

registro(conta, mes_num, ano, rendimento_total_banco, e, total) ==
    LET rend_cap == Multiplica(rendimento_total_banco,
                               fator(base_cap(conta, mes_num, ano, e), total))
        rend_cus == Multiplica(rendimento_total_banco,
                               fator(base_cus(conta, mes_num, ano, e), total))
    IN  [programa |-> e.prog, mes_num |-> mes_num, ano |-> ano,
         credito_capital |-> e.cred_cap, credito_custeio |-> e.cred_cus,
         debito_capital |-> e.deb_cap, debito_custeio |-> e.deb_cus,
         rendimento_capital |-> rend_cap, rendimento_custeio |-> rend_cus,
         total_credito |-> e.cred_cap + e.cred_cus,
         total_debito |-> e.deb_cap + e.deb_cus,
         total_rendimento |-> rend_cap + rend_cus]

calcular_rateio_rendimento(conta, mes_num, ano, rendimento_total_banco, dados_entrada) ==
    LET total == total_saldo_conta(conta, mes_num, ano, dados_entrada)
    IN  [i \in 1 .. Len(dados_entrada) |->
            registro(conta, mes_num, ano, rendimento_total_banco, dados_entrada[i], total)]

\* the filter of the save handler: what stays of the list
do_periodo(m, mes, ano) == m.mes_num = mes /\ m.ano = ano

\* variants of lista_limpa: nothing removed; only the month compared
lista_limpa_sem_filtro(lista_atual, mes_selecionado, ano_atual) == lista_atual

lista_limpa_so_mes(lista_atual, mes_selecionado, ano_atual) ==
    SelectSeq(lista_atual, LAMBDA m : ~(m.mes_num = mes_selecionado))

lista_limpa(lista_atual, mes_selecionado, ano_atual) ==
    SelectSeq(lista_atual, LAMBDA m : ~do_periodo(m, mes_selecionado, ano_atual))

registros_existentes(movs, mes_selecionado, ano_atual) ==
    SelectSeq(movs, LAMBDA m : do_periodo(m, mes_selecionado, ano_atual))

----------------------------------------------------------------------------
(* The session *)

Nada == [op |-> "inicio", conta |-> "", prog |-> "", ano |-> 0, mes |-> 0,
         rend |-> 0, entrada |-> <<>>, removidos |-> <<>>]

\* documents a store can hold when the program starts: written by earlier
\* sessions (add account A, add programs P1 and P2)
DocumentoA ==
    [programas |-> <<"P1", "P2">>, movimentacoes |-> <<>>,
     saldos_iniciais |-> [p \in {"P1", "P2"} |-> [Capital |-> 0, Custeio |-> 0]]]

StoresIniciais == { <<>>, [n \in {"A"} |-> DocumentoA] }

\* init_session_state on a fresh st.session_state
init_session_state ==
    LET carga == load_data_from_firebase(db_conn)
    IN  /\ accounts' = carga.dados
        /\ available_years' = Ordena(anos_encontrados(carga.dados))
        /\ msgs' = IF carga.ok THEN {} ELSE {"error"}

Init ==
    /\ db_conn \in {"None", "client"}
    /\ rede \in (IF db_conn = "None" THEN {FALSE} ELSE BOOLEAN)
    /\ firestore \in StoresIniciais
    /\ LET carga == load_data_from_firebase(db_conn)
       IN  /\ accounts = carga.dados
           /\ available_years = Ordena(anos_encontrados(carga.dados))
           /\ msgs = IF carga.ok THEN {} ELSE {"error"}
    /\ last = Nada
    /\ passos = 0

\* a new browser session of the same server process
NovaSessao ==
    /\ passos < MaxOps
    /\ init_session_state
    /\ last' = [Nada EXCEPT !.op = "sessao"]
    /\ passos' = passos + 1
    /\ UNCHANGED <<db_conn, firestore, rede>>

\* the store becomes unreachable, or reachable again
MudaRede ==
    /\ passos < MaxOps
    /\ db_conn = "client"
    /\ rede' = ~rede
    /\ passos' = passos + 1
    /\ last' = [Nada EXCEPT !.op = "rede"]
    /\ UNCHANGED <<accounts, available_years, db_conn, firestore, msgs>>

\* messages of a handler that mutated, saved and then reported as the code does
mensagens(sucesso) ==
    (IF save_falhou(db_conn) THEN {"error"} ELSE {}) \cup (IF sucesso THEN {"success"} ELSE {})

com_conta(contas, nome, dados) ==
    [n \in DOMAIN contas \cup {nome} |-> IF n = nome THEN dados ELSE contas[n]]

\* sidebar_config: button "Adicionar Conta"
AdicionarConta(nova_conta) ==
    /\ passos < MaxOps
    /\ passos' = passos + 1
    /\ last' = [Nada EXCEPT !.op = "conta", !.conta = nova_conta]
    /\ IF nova_conta # "" /\ nova_conta \notin DOMAIN accounts
       THEN /\ accounts' = com_conta(accounts, nova_conta, nova_estrutura)
            /\ firestore' = save_account_to_firebase(db_conn, nova_conta, nova_estrutura)
            /\ msgs' = mensagens(TRUE)
       ELSE /\ msgs' = IF nova_conta \in DOMAIN accounts THEN {"warning"} ELSE {}
            /\ UNCHANGED <<accounts, firestore>>
    /\ UNCHANGED <<available_years, db_conn, rede>>

\* sidebar_config: button "Criar Novo Exercicio"
CriarExercicio(novo_ano) ==
    /\ passos < MaxOps
    /\ passos' = passos + 1
    /\ last' = [Nada EXCEPT !.op = "exercicio", !.ano = novo_ano]
    /\ IF novo_ano \notin Elementos(available_years)
       THEN /\ available_years' = Ordena(Elementos(available_years) \cup {novo_ano})
            /\ msgs' = {"success"}
       ELSE /\ msgs' = {"warning"}
            /\ UNCHANGED available_years
    /\ UNCHANGED <<accounts, db_conn, firestore, rede>>

\* main: button "Adicionar" of "Gerenciar Programas"
AdicionarPrograma(nome, novo) ==
    /\ passos < MaxOps
    /\ nome \in DOMAIN accounts
    /\ passos' = passos + 1
    /\ last' = [Nada EXCEPT !.op = "programa", !.conta = nome, !.prog = novo]
    /\ msgs' = IF novo # "" /\ novo \notin Elementos(accounts[nome].programas)
               THEN mensagens(FALSE) ELSE {}
    /\ IF novo # "" /\ novo \notin Elementos(accounts[nome].programas)
       THEN LET si == accounts[nome].saldos_iniciais
                dados == [accounts[nome] EXCEPT
                            !.programas = Append(@, novo),
                            !.saldos_iniciais =
                                [p \in DOMAIN si \cup {novo} |->
                                    IF p = novo THEN [Capital |-> 0, Custeio |-> 0]
                                    ELSE si[p]]]
            IN  /\ accounts' = com_conta(accounts, nome, dados)
                /\ firestore' = save_account_to_firebase(db_conn, nome, dados)
       ELSE UNCHANGED <<accounts, firestore>>
    /\ UNCHANGED <<available_years, db_conn, rede>>

\* main: button "Salvar" of "Saldos Iniciais"
SalvarSaldoInicial(nome, p, n_cap, n_cus) ==
    /\ passos < MaxOps
    /\ nome \in DOMAIN accounts
    /\ p \in Elementos(accounts[nome].programas)
    /\ passos' = passos + 1
    /\ last' = [Nada EXCEPT !.op = "saldo", !.conta = nome, !.prog = p]
    /\ msgs' = mensagens(FALSE)
    /\ LET si == accounts[nome].saldos_iniciais
           dados == [accounts[nome] EXCEPT
                        !.saldos_iniciais =
                            [q \in DOMAIN si \cup {p} |->
                                IF q = p THEN [Capital |-> n_cap, Custeio |-> n_cus]
                                ELSE si[q]]]
       IN  /\ accounts' = com_conta(accounts, nome, dados)
           /\ firestore' = save_account_to_firebase(db_conn, nome, dados)
    /\ UNCHANGED <<available_years, db_conn, rede>>

\* the form of render_year_view: one draft for every program of the account
formularios(programas) ==
    { [i \in 1 .. Len(programas) |->
          [prog |-> programas[i], cred_cap |-> r[i].cred_cap, cred_cus |-> r[i].cred_cus,
           deb_cap |-> r[i].deb_cap, deb_cus |-> r[i].deb_cus]]
      : r \in [1 .. Len(programas) -> Rascunhos] }

\* variant of nova_lista: the new records added to the whole old list
nova_lista_acrescenta(conta_atual, mes_selecionado, ano_atual, rendimento_total, dados_entrada) ==
    accounts[conta_atual].movimentacoes
    \o calcular_rateio_rendimento(conta_atual, mes_selecionado, ano_atual,
                                  rendimento_total, dados_entrada)

\* the list stored by the save handler
nova_lista(conta_atual, mes_selecionado, ano_atual, rendimento_total, dados_entrada) ==
    lista_limpa(accounts[conta_atual].movimentacoes, mes_selecionado, ano_atual)
    \o calcular_rateio_rendimento(conta_atual, mes_selecionado, ano_atual,
                                  rendimento_total, dados_entrada)

\* render_year_view: button "Salvar Lancamento <mes>/<ano>"
SalvarLancamento(conta_atual, ano_atual, mes_selecionado, rendimento_total, dados_entrada) ==
    /\ passos < MaxOps
    /\ conta_atual \in DOMAIN accounts
    /\ accounts[conta_atual].programas # <<>>
    /\ ano_atual \in Elementos(available_years)
    /\ mes_selecionado \in Meses
    /\ dados_entrada \in formularios(accounts[conta_atual].programas)
    /\ passos' = passos + 1
    /\ last' = [op |-> "salvar", conta |-> conta_atual, prog |-> "", ano |-> ano_atual,
                mes |-> mes_selecionado, rend |-> rendimento_total,
                entrada |-> dados_entrada,
                removidos |-> registros_existentes(accounts[conta_atual].movimentacoes,
                                                   mes_selecionado, ano_atual)]
    /\ msgs' = mensagens(TRUE)
    /\ LET dados == [accounts[conta_atual] EXCEPT
                        !.movimentacoes = nova_lista(conta_atual, mes_selecionado, ano_atual,
                                                     rendimento_total, dados_entrada)]
       IN  /\ accounts' = com_conta(accounts, conta_atual, dados)
           /\ firestore' = save_account_to_firebase(db_conn, conta_atual, dados)
    /\ UNCHANGED <<available_years, db_conn, rede>>

Next ==
    \/ NovaSessao
    \/ MudaRede
    \/ \E c \in Contas : AdicionarConta(c)
    \/ \E a \in AnosNovos \cup {AnoAtual} : CriarExercicio(a)
    \/ \E c \in Contas, p \in Programas : AdicionarPrograma(c, p)
    \/ \E c \in Contas, p \in Programas, s \in SaldosDigitados :
            SalvarSaldoInicial(c, p, s[1], s[2])
    \/ \E c \in Contas, a \in AnosNovos \cup {AnoAtual}, m \in MesesUsados,
          r \in Rendimentos :
            \E d \in formularios(IF c \in DOMAIN accounts THEN accounts[c].programas ELSE <<>>) :
                SalvarLancamento(c, a, m, r, d)

Spec == Init /\ [][Next]_vars

\* a store written by earlier sessions that holds two accounts, each with the
\* program P1 (add account A, add account B, add program P1 to each)
DocumentoP1 ==
    [programas |-> <<"P1">>, movimentacoes |-> <<>>,
     saldos_iniciais |-> [p \in {"P1"} |-> [Capital |-> 0, Custeio |-> 0]]]

StoreDuasContas == [n \in {"A", "B"} |-> DocumentoP1]

InitDuasContas ==
    /\ db_conn \in {"None", "client"}
    /\ rede \in (IF db_conn = "None" THEN {FALSE} ELSE BOOLEAN)
    /\ firestore = StoreDuasContas
    /\ LET carga == load_data_from_firebase(db_conn)
       IN  /\ accounts = carga.dados
           /\ available_years = Ordena(anos_encontrados(carga.dados))
           /\ msgs = IF carga.ok THEN {} ELSE {"error"}
    /\ last = Nada
    /\ passos = 0

SpecDuasContas == InitDuasContas /\ [][Next]_vars

----------------------------------------------------------------------------
(* Annual summary (tab "Resumo Anual"): the row of one program *)

movs_ano(movs, prog, ano_atual) ==
    SelectSeq(movs, LAMBDA m : m.programa = prog /\ m.ano = ano_atual)

resumo_anual(conta_atual, prog, ano_atual) ==
    LET saldo_anterior == get_saldo_anterior(conta_atual, prog, "Total", 1, ano_atual)
        doAno == movs_ano(accounts[conta_atual].movimentacoes, prog, ano_atual)
        credito_ano == Soma([i \in 1 .. Len(doAno) |-> doAno[i].total_credito])
        rendimento_ano == Soma([i \in 1 .. Len(doAno) |-> doAno[i].total_rendimento])
        debito_ano == Soma([i \in 1 .. Len(doAno) |-> doAno[i].total_debito])
    IN  [saldo_anterior |-> saldo_anterior, credito |-> credito_ano,
         rendimento |-> rendimento_ano, debito |-> debito_ano,
         saldo_final |-> saldo_anterior + credito_ano + rendimento_ano - debito_ano]

----------------------------------------------------------------------------
(* Monthly statement (tab "Extrato Mensal"): the table of one program.  A  *)
(* row keeps the month number where the program shows the month's name.    *)

\* list.sort(key = mes_num): a stable insertion sort
RECURSIVE insere_por_mes(_, _)
insere_por_mes(ordenados, m) ==
    IF ordenados = <<>> THEN <<m>>
    ELSE IF Head(ordenados).mes_num <= m.mes_num
         THEN <<Head(ordenados)>> \o insere_por_mes(Tail(ordenados), m)
         ELSE <<m>> \o ordenados

RECURSIVE ordena_desde(_, _)
ordena_desde(ordenados, resto) ==
    IF resto = <<>> THEN ordenados
    ELSE ordena_desde(insere_por_mes(ordenados, Head(resto)), Tail(resto))

\* variant of ordena_por_mes: the list left in the order it is stored in
ordena_por_mes_omitida(movs) == movs

ordena_por_mes(movs) == ordena_desde(<<>>, movs)

movs_prog_ano(movs, p, ano_atual) ==
    ordena_por_mes(SelectSeq(movs, LAMBDA m : m.programa = p /\ m.ano = ano_atual))

\* the loop that accumulates the running balances and appends one row per movement
RECURSIVE linhas_extrato(_, _, _, _)
linhas_extrato(p, movs, saldo_acumulado_cap, saldo_acumulado_cus) ==
    IF movs = <<>> THEN <<>>
    ELSE LET m == Head(movs)
             cap == saldo_acumulado_cap
                    + (m.credito_capital + m.rendimento_capital - m.debito_capital)
             cus == saldo_acumulado_cus
                    + (m.credito_custeio + m.rendimento_custeio - m.debito_custeio)
         IN  << [Programa |-> p, Mes |-> m.mes_num,
                 Credito |-> m.total_credito, Rend_Cap |-> m.rendimento_capital,
                 Rend_Cust |-> m.rendimento_custeio, Rend_Total |-> m.total_rendimento,
                 Debito |-> m.total_debito, S_Custeio |-> cus,
                 S_Capital |-> cap, S_Total |-> cap + cus] >>
             \o linhas_extrato(p, Tail(movs), cap, cus)

dados_tabela(conta_atual, p, ano_atual) ==
    linhas_extrato(p,
                   movs_prog_ano(accounts[conta_atual].movimentacoes, p, ano_atual),
                   get_saldo_anterior(conta_atual, p, "Capital", 1, ano_atual),
                   get_saldo_anterior(conta_atual, p, "Custeio", 1, ano_atual))

\* the row "TOTAL" of a table that is not empty
linha_total(df_prog) ==
    LET n == Len(df_prog)
    IN  [Programa |-> "TOTAL", Mes |-> 0,
         Credito |-> Soma([i \in 1 .. n |-> df_prog[i].Credito]),
         Rend_Cap |-> Soma([i \in 1 .. n |-> df_prog[i].Rend_Cap]),
         Rend_Cust |-> Soma([i \in 1 .. n |-> df_prog[i].Rend_Cust]),
         Rend_Total |-> Soma([i \in 1 .. n |-> df_prog[i].Rend_Total]),
         Debito |-> Soma([i \in 1 .. n |-> df_prog[i].Debito]),
         S_Custeio |-> df_prog[n].S_Custeio,
         S_Capital |-> df_prog[n].S_Capital,
         S_Total |-> df_prog[n].S_Total]

\* what one program adds to df_final
extrato_programa(conta_atual, p, ano_atual) ==
    LET df_prog == dados_tabela(conta_atual, p, ano_atual)
    IN  IF df_prog = <<>> THEN <<>> ELSE df_prog \o <<linha_total(df_prog)>>

----------------------------------------------------------------------------
(* Vocabulary of the properties *)

\* the step just taken is the save of a month
Salvou == last'.op = "salvar" /\ passos' = passos + 1

\* the records of one key in a list of movements
da_chave(movs, prog, ano, mes) ==
    SelectSeq(movs, LAMBDA m : m.programa = prog /\ m.ano = ano /\ m.mes_num = mes)

AnosConsulta == (AnoAtual - 1) .. (AnoAtual + 2)
ProgramasConsulta == Programas \cup {"PX"}

\* (a1, m1) is chronologically at or before (a2, m2)
ate(a1, m1, a2, m2) == a1 < a2 \/ (a1 = a2 /\ m1 <= m2)

\* prior + credit - debit of one form entry, before clamping
bruto(conta, mes, ano, e, tipo) ==
    get_saldo_anterior(conta, e.prog, tipo, mes, ano)
    + (IF tipo = "Capital" THEN e.cred_cap - e.deb_cap ELSE e.cred_cus - e.deb_cus)

\* the sum of the non-negative bases of a form
pool(conta, mes, ano, entrada) ==
    Soma([i \in 1 .. 2 * Len(entrada) |->
            LET e == entrada[(i + 1) \div 2]
                b == bruto(conta, mes, ano, e, IF i % 2 = 1 THEN "Capital" ELSE "Custeio")
            IN  IF b > 0 THEN b ELSE 0])

----------------------------------------------------------------------------
(* C1: in every reachable state each account holds at most one movement    *)
(* for any (program, year, month).                                         *)
C1_UmMovimentoPorChave ==
    \A c \in DOMAIN accounts :
        LET movs == accounts[c].movimentacoes
        IN  \A i, j \in 1 .. Len(movs) :
                (/\ movs[i].programa = movs[j].programa
                 /\ movs[i].ano = movs[j].ano
                 /\ movs[i].mes_num = movs[j].mes_num) => i = j

\* a month that already had movements was saved again; two programs in it
C1_Witness ==
    /\ last.op = "salvar"
    /\ Len(last.removidos) >= 2
    /\ Len(accounts[last.conta].movimentacoes) >= 2

(* C2: saving a key that already has a movement is not an error and       *)
(* leaves exactly one movement for the key, with the credit and debit of   *)
(* the second form and the yield computed by the second apportionment.     *)
C2_Passo ==
    Salvou =>
        LET c == last'.conta
            novos == calcular_rateio_rendimento(c, last'.mes, last'.ano, last'.rend,
                                                last'.entrada)
        IN  \A i \in 1 .. Len(last'.entrada) :
                LET e == last'.entrada[i]
                    antes == da_chave(accounts[c].movimentacoes, e.prog, last'.ano, last'.mes)
                    depois == da_chave(accounts'[c].movimentacoes, e.prog, last'.ano,
                                       last'.mes)
                IN  antes # <<>> =>
                        /\ "success" \in msgs'
                        /\ "error" \in msgs' => save_falhou(db_conn)
                        /\ Len(depois) = 1
                        /\ depois[1].credito_capital = e.cred_cap
                        /\ depois[1].credito_custeio = e.cred_cus
                        /\ depois[1].debito_capital = e.deb_cap
                        /\ depois[1].debito_custeio = e.deb_cus
                        /\ depois[1].rendimento_capital = novos[i].rendimento_capital
                        /\ depois[1].rendimento_custeio = novos[i].rendimento_custeio

C2_SubstituiNaoAcumula == [][C2_Passo]_vars

\* the month was saved again with another credit and another yield for a program
C2_Witness ==
    /\ last.op = "salvar"
    /\ \E i \in 1 .. Len(last.removidos) :
          LET velho == last.removidos[i]
              novo == da_chave(accounts[last.conta].movimentacoes, velho.programa,
                               last.ano, last.mes)
          IN  /\ Len(novo) = 1
              /\ novo[1].credito_capital # velho.credito_capital
              /\ novo[1].rendimento_capital # velho.rendimento_capital

(* C3: balance continuity.  For every account, program, year Y and         *)
(* category, the prior balance of January of Y+1 is the prior balance of   *)
(* January of Y plus the net of the program's movements of Y; and the      *)
(* closing balance of the annual summary of Y is the Total prior balance   *)
(* of January of Y+1.                                                      *)
C3_Continuidade ==
    \A c \in DOMAIN accounts : \A p \in Programas : \A y \in AnosConsulta :
        LET doAno == movs_ano(accounts[c].movimentacoes, p, y)
        IN  /\ \A t \in Tipos :
                  get_saldo_anterior(c, p, t, 1, y + 1)
                  = get_saldo_anterior(c, p, t, 1, y)
                    + Soma([i \in 1 .. Len(doAno) |-> liquido(doAno[i], t)])
            /\ resumo_anual(c, p, y).saldo_final
               = get_saldo_anterior(c, p, "Total", 1, y + 1)

\* a program has movements in two years, with a net that is not zero in the first
C3_Witness ==
    \E c \in DOMAIN accounts : \E p \in Programas :
        LET um == movs_ano(accounts[c].movimentacoes, p, AnoAtual)
            dois == movs_ano(accounts[c].movimentacoes, p, AnoAtual + 1)
        IN  /\ um # <<>> /\ dois # <<>>
            /\ liquido(um[1], "Total") # 0
            /\ liquido(dois[1], "Total") # 0
            /\ um[1].total_rendimento # 0

(* C4: the prior balance is the initial balance plus the net of exactly    *)
(* the program's movements strictly before the target period; so a save    *)
(* of period (Y, M) leaves the prior balance of every target period at or  *)
(* before (Y, M) unchanged.                                                *)
MesesConsulta == {1, 2, 3}
AnosC4 == {AnoAtual, AnoAtual + 1}

C4_Estado ==
    \A c \in DOMAIN accounts : \A p \in Programas : \A t \in {"Capital", "Custeio"} :
        \A y \in AnosC4 : \A m \in MesesConsulta :
            LET movs == accounts[c].movimentacoes
                si == accounts[c].saldos_iniciais
                antes == { i \in 1 .. Len(movs) :
                             movs[i].programa = p /\ ~ate(y, m, movs[i].ano, movs[i].mes_num) }
                cap == t = "Capital"
            IN  get_saldo_anterior(c, p, t, m, y)
                = (IF p \in DOMAIN si THEN si[p][t] ELSE 0)
                  + Soma([i \in 1 .. Len(movs) |->
                            IF i \in antes
                            THEN (IF cap THEN movs[i].credito_capital
                                              + movs[i].rendimento_capital
                                              - movs[i].debito_capital
                                  ELSE movs[i].credito_custeio
                                       + movs[i].rendimento_custeio
                                       - movs[i].debito_custeio)
                            ELSE 0])

C4_Passo ==
    Salvou =>
        \A p \in Programas : \A t \in Tipos :
            \A y \in AnosC4 : \A m \in MesesConsulta :
                ate(y, m, last'.ano, last'.mes) =>
                    saldo_em(accounts', last'.conta, p, t, m, y)
                    = get_saldo_anterior(last'.conta, p, t, m, y)

C4_SoPeriodosAnteriores == [](C4_Estado) /\ [][C4_Passo]_vars

\* a month with an earlier month behind it was saved again with other values
C4_Witness ==
    /\ last.op = "salvar"
    /\ last.removidos # <<>>
    /\ \E i \in 1 .. Len(last.removidos) :
          LET velho == last.removidos[i]
              novo == da_chave(accounts[last.conta].movimentacoes, velho.programa,
                               last.ano, last.mes)
          IN  /\ Len(novo) = 1
              /\ liquido(novo[1], "Total") # liquido(velho, "Total")
              /\ get_saldo_anterior(last.conta, velho.programa, "Total", last.mes, last.ano)
                 # saldo_inicial(accounts[last.conta], velho.programa, "Total")

(* C5: yield conservation.  Whenever the pool of a save is positive, the   *)
(* yields of the emitted movements add up to the reported total within     *)
(* one minor unit, also for a negative total.                              *)
emitidos(contas, conta, ano, mes) ==
    registros_existentes(contas[conta].movimentacoes, mes, ano)

C5_Passo ==
    (Salvou /\ pool(last'.conta, last'.mes, last'.ano, last'.entrada) > 0) =>
        LET em == emitidos(accounts', last'.conta, last'.ano, last'.mes)
        IN  Abs(Soma([i \in 1 .. Len(em) |->
                        em[i].rendimento_capital + em[i].rendimento_custeio])
                - last'.rend) <= Escala

C5_Conservacao == [][C5_Passo]_vars

\* a negative total was shared by two programs, in both categories
C5_Witness ==
    /\ last.op = "salvar"
    /\ last.rend < 0
    /\ LET em == emitidos(accounts, last.conta, last.ano, last.mes)
       IN  /\ Len(em) = 2
           /\ em[1].total_rendimento < 0
           /\ em[2].total_rendimento < 0
           /\ \E i \in 1 .. 2 : em[i].rendimento_custeio < 0
           /\ \E i \in 1 .. 2 : em[i].rendimento_capital < 0

(* C6: zero-pool safety.  When every Capital and Custeio base of the form  *)
(* is zero, the save still emits one movement per program of the form,     *)
(* and every emitted yield is 0 whatever the reported total.               *)
C6_Passo ==
    (/\ Salvou
     /\ \A i \in 1 .. Len(last'.entrada) : \A t \in {"Capital", "Custeio"} :
            bruto(last'.conta, last'.mes, last'.ano, last'.entrada[i], t) <= 0) =>
        LET em == emitidos(accounts', last'.conta, last'.ano, last'.mes)
        IN  /\ Len(em) = Len(last'.entrada)
            /\ \A i \in 1 .. Len(em) :
                  /\ em[i].programa = last'.entrada[i].prog
                  /\ em[i].rendimento_capital = 0
                  /\ em[i].rendimento_custeio = 0
                  /\ em[i].total_rendimento = 0

C6_PoolZero == [][C6_Passo]_vars

\* a total that is not zero was reported for two programs whose bases are all zero
C6_Witness ==
    /\ last.op = "salvar"
    /\ last.rend # 0
    /\ Len(last.entrada) = 2
    /\ pool(last.conta, last.mes, last.ano, last.entrada) = 0
    /\ \E i \in 1 .. 2 : bruto(last.conta, last.mes, last.ano, last.entrada[i], "Custeio") < 0
    /\ Len(emitidos(accounts, last.conta, last.ano, last.mes)) = 2

(* C7: clamping.  For each program and each category on its own, a         *)
(* negative prior + credit - debit adds exactly 0 to the pool and gets a   *)
(* yield share of exactly 0.                                               *)
C7_Passo ==
    Salvou =>
        LET c == last'.conta
            mes == last'.mes
            ano == last'.ano
        IN  \A i \in 1 .. Len(last'.entrada) :
                LET e == last'.entrada[i]
                    r == da_chave(accounts'[c].movimentacoes, e.prog, ano, mes)
                IN  /\ bruto(c, mes, ano, e, "Capital") < 0 =>
                          /\ total_saldo_conta(c, mes, ano, last'.entrada)
                             = pool(c, mes, ano, last'.entrada)
                          /\ Len(r) = 1 /\ r[1].rendimento_capital = 0
                    /\ bruto(c, mes, ano, e, "Custeio") < 0 =>
                          /\ total_saldo_conta(c, mes, ano, last'.entrada)
                             = pool(c, mes, ano, last'.entrada)
                          /\ Len(r) = 1 /\ r[1].rendimento_custeio = 0

C7_Piso == [][C7_Passo]_vars

\* a program with a negative Custeio base took part in a save that shared a yield
C7_Witness ==
    /\ last.op = "salvar"
    /\ pool(last.conta, last.mes, last.ano, last.entrada) > 0
    /\ \E i \in 1 .. Len(last.entrada) :
          LET e == last.entrada[i]
              r == da_chave(accounts[last.conta].movimentacoes, e.prog, last.ano, last.mes)
          IN  /\ bruto(last.conta, last.mes, last.ano, e, "Custeio") < 0
              /\ Len(r) = 1
              /\ r[1].rendimento_custeio = 0
              /\ r[1].rendimento_capital # 0

(* C8: the prior balance is total: a query for an unknown account, or for  *)
(* a program with no initial balance and no movements, returns zero.       *)
sem_registo(c, p) ==
    /\ c \in DOMAIN accounts
    /\ p \notin DOMAIN accounts[c].saldos_iniciais
    /\ \A i \in 1 .. Len(accounts[c].movimentacoes) :
          accounts[c].movimentacoes[i].programa # p

\* the claim as stated
C8_Original ==
    \A c \in Contas : \A p \in ProgramasConsulta : \A t \in Tipos :
        \A y \in AnosConsulta : \A m \in MesesConsulta :
            (c \notin DOMAIN accounts \/ sem_registo(c, p)) =>
                /\ ~levanta_KeyError(accounts, c)
                /\ get_saldo_anterior(c, p, t, m, y) = 0

(* C8 as amended: in a known account a program with no initial balance and *)
(* no movements has a zero prior balance; a query for an unknown account   *)
(* fails with KeyError.                                                    *)
C8_Emendado ==
    \A c \in Contas : \A p \in ProgramasConsulta : \A t \in Tipos :
        \A y \in AnosConsulta : \A m \in MesesConsulta :
            /\ c \notin DOMAIN accounts =>
                  /\ levanta_KeyError(accounts, c)
                  /\ get_saldo_anterior(c, p, t, m, y) = KeyError
            /\ sem_registo(c, p) =>
                  /\ ~levanta_KeyError(accounts, c)
                  /\ get_saldo_anterior(c, p, t, m, y) = 0

\* an account with movements of one program is asked for a program it never had,
\* while another account is unknown
C8_Witness ==
    \E c \in DOMAIN accounts : \E p \in Programas :
        /\ accounts[c].movimentacoes # <<>>
        /\ accounts[c].movimentacoes[1].total_credito > 0
        /\ sem_registo(c, p)
        /\ get_saldo_anterior(c, p, "Total", 12, AnoAtual + 1) = 0
        /\ Contas \ DOMAIN accounts # {}

(* C9: with the store unavailable the session goes on, and every mutating  *)
(* operation is a no-op reported as failed-to-persist, not as a success.   *)
indisponivel == db_conn = "None" \/ ~rede

C9_Passo ==
    (/\ indisponivel
     /\ passos' = passos + 1
     /\ last'.op \in {"conta", "programa", "saldo", "salvar"}) =>
        /\ accounts' = accounts
        /\ firestore' = firestore
        /\ "success" \notin msgs'

\* the claim as stated
C9_Original == [][C9_Passo]_vars

(* C10: proportional apportionment.  With a positive pool a save emits     *)
(* exactly one movement per program of the form, the credit and debit      *)
(* fields copied from the form, each yield equal to                        *)
(* total x base / pool up to the rounding of the division and the product, *)
(* base = max(0, prior + credit - debit), pool = the sum of all bases.     *)
margem(rend) == Abs(rend) \div Escala + 1

C10_Passo ==
    (Salvou /\ pool(last'.conta, last'.mes, last'.ano, last'.entrada) > 0) =>
        LET c == last'.conta
            mes == last'.mes
            ano == last'.ano
            total == pool(c, mes, ano, last'.entrada)
        IN  /\ Len(emitidos(accounts', c, ano, mes)) = Len(last'.entrada)
            /\ \A i \in 1 .. Len(last'.entrada) :
                  LET e == last'.entrada[i]
                      r == da_chave(accounts'[c].movimentacoes, e.prog, ano, mes)
                      bCap == Max(0, bruto(c, mes, ano, e, "Capital"))
                      bCus == Max(0, bruto(c, mes, ano, e, "Custeio"))
                  IN  /\ Len(r) = 1
                      /\ r[1].credito_capital = e.cred_cap
                      /\ r[1].credito_custeio = e.cred_cus
                      /\ r[1].debito_capital = e.deb_cap
                      /\ r[1].debito_custeio = e.deb_cus
                      /\ r[1].total_credito = e.cred_cap + e.cred_cus
                      /\ r[1].total_debito = e.deb_cap + e.deb_cus
                      /\ r[1].total_rendimento
                         = r[1].rendimento_capital + r[1].rendimento_custeio
                      /\ Abs(r[1].rendimento_capital - Arredonda(last'.rend * bCap, total))
                         <= margem(last'.rend)
                      /\ Abs(r[1].rendimento_custeio - Arredonda(last'.rend * bCus, total))
                         <= margem(last'.rend)

C10_Proporcional == [][C10_Passo]_vars

\* the scenario of the specification: P1 starts with Capital 100, P2 is credited
\* Capital 100 in January, the yield of 10 is split 5 and 5, and each starts
\* February with Capital 105
C10_Witness ==
    /\ last.op = "salvar" /\ last.conta = "A" /\ last.ano = AnoAtual /\ last.mes = 1
    /\ last.rend = Moeda(10)
    /\ accounts["A"].programas = <<"P1", "P2">>
    /\ accounts["A"].saldos_iniciais["P1"] = [Capital |-> Moeda(100), Custeio |-> 0]
    /\ accounts["A"].saldos_iniciais["P2"] = [Capital |-> 0, Custeio |-> 0]
    /\ last.entrada[1].cred_cap = 0
    /\ last.entrada[2].cred_cap = Moeda(100)
    /\ LET em == emitidos(accounts, "A", AnoAtual, 1)
       IN  /\ Len(em) = 2
           /\ em[1].rendimento_capital = Moeda(5)
           /\ em[2].rendimento_capital = Moeda(5)
    /\ get_saldo_anterior("A", "P1", "Capital", 2, AnoAtual) = Moeda(105)
    /\ get_saldo_anterior("A", "P2", "Capital", 2, AnoAtual) = Moeda(105)

(* C11: monthly statement.  For a program and a year the rows are the      *)
(* program's movements of the year in ascending month order; the running   *)
(* balance of the row of month m, per category, is the prior balance of    *)
(* January plus the net of the year's movements with month <= m, which is  *)
(* the prior balance of the following period; the TOTAL row sums the       *)
(* credit, yield and debit columns and carries the running balance of the  *)
(* last row.                                                               *)
AnosExtrato == {AnoAtual, AnoAtual + 1}

\* the prior balance of the period that follows (ano, mes)
saldo_seguinte(c, p, t, ano, mes) ==
    IF mes < 12 THEN get_saldo_anterior(c, p, t, mes + 1, ano)
    ELSE get_saldo_anterior(c, p, t, 1, ano + 1)

C11_Extrato ==
    \A c \in DOMAIN accounts : \A p \in Programas : \A y \in AnosExtrato :
        LET movs == accounts[c].movimentacoes
            doAno == { i \in 1 .. Len(movs) : movs[i].programa = p /\ movs[i].ano = y }
            ext == extrato_programa(c, p, y)
            n == Cardinality(doAno)
            ate_mes(t, mes) ==
                get_saldo_anterior(c, p, t, 1, y)
                + Soma([i \in 1 .. Len(movs) |->
                          IF i \in doAno /\ movs[i].mes_num <= mes
                          THEN liquido(movs[i], t) ELSE 0])
        IN  /\ Len(ext) = IF n = 0 THEN 0 ELSE n + 1
            /\ \A k \in 1 .. n :
                  /\ ext[k].Programa = p
                  /\ \E i \in doAno :
                        /\ movs[i].mes_num = ext[k].Mes
                        /\ ext[k].Credito = movs[i].total_credito
                        /\ ext[k].Debito = movs[i].total_debito
                        /\ ext[k].Rend_Cap = movs[i].rendimento_capital
                        /\ ext[k].Rend_Cust = movs[i].rendimento_custeio
                        /\ ext[k].Rend_Total = movs[i].total_rendimento
                  /\ k < n => ext[k].Mes < ext[k + 1].Mes
                  /\ ext[k].S_Capital = ate_mes("Capital", ext[k].Mes)
                  /\ ext[k].S_Custeio = ate_mes("Custeio", ext[k].Mes)
                  /\ ext[k].S_Total = ate_mes("Total", ext[k].Mes)
                  /\ ext[k].S_Capital = saldo_seguinte(c, p, "Capital", y, ext[k].Mes)
                  /\ ext[k].S_Custeio = saldo_seguinte(c, p, "Custeio", y, ext[k].Mes)
                  /\ ext[k].S_Total = saldo_seguinte(c, p, "Total", y, ext[k].Mes)
            /\ n > 0 =>
                  /\ ext[n + 1].Programa = "TOTAL"
                  /\ ext[n + 1].S_Capital = ext[n].S_Capital
                  /\ ext[n + 1].S_Custeio = ext[n].S_Custeio
                  /\ ext[n + 1].S_Total = ext[n].S_Total
                  /\ ext[n + 1].Credito
                     = Soma([i \in 1 .. Len(movs) |->
                               IF i \in doAno THEN movs[i].total_credito ELSE 0])
                  /\ ext[n + 1].Debito
                     = Soma([i \in 1 .. Len(movs) |->
                               IF i \in doAno THEN movs[i].total_debito ELSE 0])
                  /\ ext[n + 1].Rend_Total
                     = Soma([i \in 1 .. Len(movs) |->
                               IF i \in doAno THEN movs[i].total_rendimento ELSE 0])

\* February was saved before January, both with a net that is not zero, so the
\* statement of the program has two rows in another order than the stored list
C11_Witness ==
    \E c \in DOMAIN accounts : \E p \in Programas :
        LET movs == accounts[c].movimentacoes
            ext == extrato_programa(c, p, AnoAtual)
        IN  /\ Len(ext) = 3
            /\ \E i, j \in 1 .. Len(movs) :
                  /\ i < j
                  /\ movs[i].programa = p /\ movs[j].programa = p
                  /\ movs[i].ano = AnoAtual /\ movs[j].ano = AnoAtual
                  /\ movs[i].mes_num > movs[j].mes_num
            /\ ext[1].S_Total # get_saldo_anterior(c, p, "Total", 1, AnoAtual)
            /\ ext[2].S_Total # ext[1].S_Total
            /\ ext[2].Rend_Total # 0
            /\ ext[3].S_Total = ext[2].S_Total

(* C12: movements are not changed in place and are removed only by a save  *)
(* of their own period.  A save of period (Y, M) in an account leaves the  *)
(* movements of that account with another (year, month), and the           *)
(* movements of every other account, as they were; adding a program and    *)
(* setting an initial balance leave all movements as they were.            *)
fora_do_periodo(movs, ano, mes) ==
    SelectSeq(movs, LAMBDA m : m.ano # ano \/ m.mes_num # mes)

C12_Passo ==
    /\ Salvou =>
          /\ last'.conta \in DOMAIN accounts /\ DOMAIN accounts' = DOMAIN accounts
          /\ fora_do_periodo(accounts'[last'.conta].movimentacoes, last'.ano, last'.mes)
             = fora_do_periodo(accounts[last'.conta].movimentacoes, last'.ano, last'.mes)
          /\ \A c \in DOMAIN accounts \ {last'.conta} :
                accounts'[c].movimentacoes = accounts[c].movimentacoes
    /\ (passos' = passos + 1 /\ last'.op \in {"programa", "saldo"}) =>
          /\ DOMAIN accounts' = DOMAIN accounts
          /\ \A c \in DOMAIN accounts :
                accounts'[c].movimentacoes = accounts[c].movimentacoes

C12_SoOProprioPeriodo == [][C12_Passo]_vars

\* a month of one account was saved while the same account held movements of
\* another month and another account held movements too
C12_Witness ==
    /\ last.op = "salvar"
    /\ fora_do_periodo(accounts[last.conta].movimentacoes, last.ano, last.mes) # <<>>
    /\ emitidos(accounts, last.conta, last.ano, last.mes) # <<>>
    /\ \E c \in DOMAIN accounts \ {last.conta} : accounts[c].movimentacoes # <<>>

====
